---- MODULE Spec2Model ----
(***************************************************************************)
(* A model of shotgun's capture pipeline (src/src/main.rs, fn run): the    *)
(* command line is resolved into a target window and a selection, the      *)
(* selection is captured and converted to RGBA8, a root capture is masked  *)
(* against the physical screens, and the buffer is written out.            *)
(*                                                                         *)
(* util.rs (Rect, intersection) and xwrap.rs (the Xlib wrappers) are       *)
(* modelled from their documented behaviour: main.rs only calls them.      *)
(***************************************************************************)
EXTENDS Integers, Sequences, FiniteSets

VARIABLES
    pc,          \* position of run(): the next stage to execute, or "exited"
    exit,        \* <<>> while running, <<code>> once the process has exited
    err,         \* the failure that ended the run, "none" otherwise
    log,         \* the collaborator calls made so far, in order
    window,      \* the capture target (line 79)
    windowRect,  \* display.get_window_rect(window) (line 100)
    geom,        \* the -g argument: None when absent, Some(argument) otherwise
    sel,         \* the resolved selection, window-relative (line 101)
    image,       \* the `image` binding: the XImage of line 124, then the
                 \* buffer of line 132, then possibly `masked` (line 167)
    converted,   \* the RGBA8 buffer as into_image_buffer returned it
    screens,     \* what get_screen_rects(root) returns on this display:
                 \* None, or Some(the screens in enumeration order)
    overlapping, \* the filtered `screens` vector of line 145
    maskRan,     \* line 167 was executed: `image` was replaced by `masked`
    warned,      \* the enumeration failed: line 171 was reached
    free,        \* matches.free, the loose arguments (line 59)
    outputExt,   \* the lowercased -f argument, as its characters (line 90)
    dest,        \* where the image was sent: "none", "stdout" or "file"
    ra, rb,      \* the operands of a lone Rect::intersection call
    rres,        \* its result
    rpc          \* "input" before that call, "applied" after it

vars == <<pc, exit, err, log, window, windowRect, geom, sel, image, converted,
          screens, overlapping, maskRan, warned, free, outputExt, dest,
          ra, rb, rres, rpc>>

rectVars == <<ra, rb, rres, rpc>>

----------------------------------------------------------------------------
(* Bounds of the model *)

\* Width of the root window (the virtual desktop), in pixels.
RootW == 3
\* Height of the root window, in pixels.
RootH == 2
\* Largest number of screens the RandR enumeration returns.
MaxScreens == 2
\* Largest coordinate and extent of the operands of a lone intersection.
MaxCoord == 2

----------------------------------------------------------------------------
(* Option<T>: None is the empty sequence, Some(v) the one-element sequence *)

None == <<>>
Some(v) == <<v>>
IsSome(o) == o # <<>>
Unwrap(o) == o[1]

Max(a, b) == IF a >= b THEN a ELSE b
Min(a, b) == IF a <= b THEN a ELSE b

----------------------------------------------------------------------------
(* util::Rect *)

Rect(x, y, w, h) == [x |-> x, y |-> y, w |-> w, h |-> h]

NoRect == Rect(0, 0, 0, 0)

\* A wrong intersection: the right and bottom edges are taken for the extent.
IntersectionEdgeAsExtent(a, b) ==
    LET ix == Max(a.x, b.x)
        iy == Max(a.y, b.y)
        iw == Min(a.x + a.w, b.x + b.w)
        ih == Min(a.y + a.h, b.y + b.h)
    IN  IF iw <= 0 \/ ih <= 0 THEN None ELSE Some(Rect(ix, iy, iw, ih))

\* Rect::intersection: the overlap of a and b, None when it has no area.
Intersection(a, b) ==
    LET ix == Max(a.x, b.x)
        iy == Max(a.y, b.y)
        iw == Min(a.x + a.w, b.x + b.w) - ix
        ih == Min(a.y + a.h, b.y + b.h) - iy
    IN  IF iw <= 0 \/ ih <= 0 THEN None ELSE Some(Rect(ix, iy, iw, ih))

----------------------------------------------------------------------------
(* The display: windows, framebuffer, screens *)

Root == "root"
Windows == {Root, "w1", "w2"}

RootRect == Rect(0, 0, RootW, RootH)

\* The root-relative rectangles of the windows of the display.
WindowRects ==
    [wd \in Windows |->
        CASE wd = Root -> RootRect
          [] wd = "w1" -> Rect(1, 0, RootW - 1, RootH)
          [] wd = "w2" -> Rect(1, 1, 1, 1)]

\* The -g arguments tried: absent, malformed text, or the fields of WxH+X+Y.
Geometries == [W : 0..RootW, H : {0, 1, RootH}, X : -1..RootW, Y : {0, 1}]
Malformed == [text |-> "bogus"]
GeomArgs == {None, Some(Malformed)} \cup {Some(g) : g \in Geometries}

\* The argument has the shape WxH+X+Y.
WellFormed(g) == "text" \notin DOMAIN g

\* xwrap::parse_geometry: the Rect of a WxH+X+Y argument; a text of another
\* shape sets no field, which leaves the empty Rect at the origin.
ParseGeometry(g) ==
    IF WellFormed(g) THEN Rect(g.X, g.Y, g.W, g.H) ELSE Rect(0, 0, 0, 0)

\* Pixels are <<r, g, b, a>>; the root framebuffer gives every position its
\* own colour, except for a position that is black.
Transparent == <<0, 0, 0, 0>>
Dark == <<0, 0, 0>>
Lit(px, py) == <<px + 1, py + 1, px + py + 1>>

\* The pixel positions of a w x h buffer, and the buffer of pixel map px.
Grid(w, h) == (0..(w - 1)) \X (0..(h - 1))
Buffer(w, h, px) == [w |-> w, h |-> h, px |-> px]

EmptyImage == [w |-> 0, h |-> 0, px |-> <<>>]

\* display.get_image: the pixels of rectangle r of window wd, dark at `hole`.
GetImage(wd, r, hole, depth) ==
    LET ox == WindowRects[wd].x + r.x
        oy == WindowRects[wd].y + r.y
    IN  [depth |-> depth, w |-> r.w, h |-> r.h,
         px |-> [p \in Grid(r.w, r.h) |->
                    IF <<ox + p[1], oy + p[2]>> = hole
                    THEN Dark
                    ELSE Lit(ox + p[1], oy + p[2])]]

\* XImage::into_image_buffer: RGBA8 with opaque alpha; 24 and 32 bit only.
IntoImageBuffer(x) ==
    IF x.depth \in {24, 32}
    THEN Some(Buffer(x.w, x.h, [p \in Grid(x.w, x.h) |-> x.px[p] \o <<255>>]))
    ELSE None

\* The physical screens RandR may report, root-relative: the left part of
\* the desktop, a shorter screen to its right, one spanning the whole root,
\* and one overlapping the first two along the top row.
ScreenLeft == Rect(0, 0, RootW - 1, RootH)
ScreenRightTop == Rect(RootW - 1, 0, 1, RootH - 1)
ScreenFull == RootRect
ScreenTop == Rect(1, 0, RootW - 1, 1)
ScreenRects == {ScreenLeft, ScreenRightTop, ScreenFull, ScreenTop}

\* display.get_screen_rects: None, or the screens in enumeration order.
ScreenResults ==
    {None} \cup {Some(s) : s \in UNION {[1..n -> ScreenRects] : n \in 0..MaxScreens}}

----------------------------------------------------------------------------
(* The image crate operations used by the mask step *)

\* RgbaImage::from_pixel
FromPixel(w, h, p) == Buffer(w, h, [q \in Grid(w, h) |-> p])

\* GenericImage::sub_image: the w x h view of img whose origin is (x, y).
SubImage(img, x, y, w, h) ==
    Buffer(w, h, [p \in Grid(w, h) |-> img.px[<<x + p[1], y + p[2]>>]])

\* GenericImage::copy_from: other is copied to (x, y) of dst, or nothing is
\* copied when it does not fit.
CopyFrom(dst, other, x, y) ==
    IF dst.w < other.w + x \/ dst.h < other.h + y
    THEN dst
    ELSE [dst EXCEPT !.px =
            [p \in DOMAIN dst.px |->
                IF /\ x <= p[1] /\ p[1] < x + other.w
                   /\ y <= p[2] /\ p[2] < y + other.h
                THEN other.px[<<p[1] - x, p[2] - y>>]
                ELSE dst.px[p]]]

\* screens.filter_map(|s| s.intersection(sel)).collect()
RECURSIVE FilterMap(_, _)
FilterMap(scr, s) ==
    IF scr = <<>> THEN <<>>
    ELSE LET o == Intersection(Head(scr), s)
         IN  (IF IsSome(o) THEN <<Unwrap(o)>> ELSE <<>>) \o FilterMap(Tail(scr), s)

\* The loop of lines 153-165: every overlapping screen is copied from img
\* into masked, at its position relative to the captured area.
RECURSIVE MaskLoop(_, _, _, _)
MaskLoop(masked, img, scr, s) ==
    IF scr = <<>> THEN masked
    ELSE LET screen == Head(scr)
             sub == Rect(screen.x - s.x, screen.y - s.y, screen.w, screen.h)
             sub_src == SubImage(img, sub.x, sub.y, sub.w, sub.h)
         IN  MaskLoop(CopyFrom(masked, sub_src, sub.x, sub.y), img, Tail(scr), s)

----------------------------------------------------------------------------
(* The command line *)

\* Loose arguments: none (a file named after the time), "-" (standard
\* output), or two names.
FreeArgs == {<<>>, <<"-">>, <<"a.png", "b.png">>}

\* The -i arguments tried: absent, not an integer, or the id of a window.
IdArgs == {None, Some("zzz")} \cup {Some(wd) : wd \in Windows}

\* The -f arguments tried, each a sequence of characters.
FormatArgs ==
    {None, Some(<<"p", "n", "g">>), Some(<<"P", "N", "G">>), Some(<<"p", "a", "m">>),
     Some(<<"P", "a", "m">>), Some(<<"P", "A", "M">>), Some(<<"b", "m", "p">>),
     Some(<<"J", "P", "G">>)}

UpperChars ==
    <<"A", "B", "C", "D", "E", "F", "G", "H", "I", "J", "K", "L", "M",
      "N", "O", "P", "Q", "R", "S", "T", "U", "V", "W", "X", "Y", "Z">>
LowerChars ==
    <<"a", "b", "c", "d", "e", "f", "g", "h", "i", "j", "k", "l", "m",
      "n", "o", "p", "q", "r", "s", "t", "u", "v", "w", "x", "y", "z">>

\* char::to_lowercase on a letter or any other character.
LowerChar(c) ==
    IF \E i \in 1..Len(UpperChars) : UpperChars[i] = c
    THEN LowerChars[CHOOSE i \in 1..Len(UpperChars) : UpperChars[i] = c]
    ELSE c

\* str::to_lowercase: every character is lowered.
ToLowercase(f) == [i \in 1..Len(f) |-> LowerChar(f[i])]

Png == <<"p", "n", "g">>
Pam == <<"p", "a", "m">>

----------------------------------------------------------------------------
(* run() *)

InitRun ==
    /\ pc = "start"
    /\ exit = None
    /\ err = "none"
    /\ log = <<>>
    /\ window = Root
    /\ windowRect = NoRect
    /\ geom = None
    /\ sel = NoRect
    /\ image = EmptyImage
    /\ converted = EmptyImage
    /\ overlapping = <<>>
    /\ maskRan = FALSE
    /\ warned = FALSE
    /\ free = <<>>
    /\ outputExt = Png
    /\ dest = "none"

\* The process starts on a display whose screens are any of ScreenResults.
Init ==
    /\ InitRun
    /\ screens \in ScreenResults
    /\ ra = NoRect
    /\ rb = NoRect
    /\ rres = None
    /\ rpc = "input"

\* `return code` of run(), then process::exit(code) in main (line 201).
Return(code, e) ==
    /\ pc' = "exited"
    /\ exit' = Some(code)
    /\ err' = e

\* A panic (a failed expect or unwrap, a failed eprintln!): the process
\* exits with Rust's panic status.
Panic(e) == Return(101, e)

\* eprintln!(message of e); return 1. eprintln! panics when standard error
\* cannot be written (eok is FALSE).
Fail(e, eok) == IF eok THEN Return(1, e) ELSE Panic(e)

\* eprint!/eprintln! of help or version; return 0.
PrintAndReturn(eok) == IF eok THEN Return(0, "none") ELSE Panic("StderrFailed")

\* Lines 34-35: env::args().collect() panics on an argument that is not
\* valid Unicode.
CollectArgs ==
    /\ pc = "start"
    /\ \E unicode \in BOOLEAN :
          IF unicode THEN pc' = "args" /\ UNCHANGED <<exit, err>>
          ELSE Panic("ArgsNotUnicode")
    /\ UNCHANGED <<rectVars, log, window, windowRect, geom, sel, image, converted, screens,
                   overlapping, maskRan, warned, free, outputExt, dest>>

\* Lines 44-68: option parsing, help, the loose arguments, version.
ParseArgs ==
    /\ pc = "args"
    /\ \E ok \in BOOLEAN, h \in BOOLEAN, v \in BOOLEAN, fr \in FreeArgs, eok \in BOOLEAN :
          /\ free' = (IF ok /\ ~h THEN fr ELSE free)
          /\ IF ~ok THEN Fail("Usage", eok)
             ELSE IF h THEN PrintAndReturn(eok)
             ELSE IF Len(fr) > 1 THEN Fail("TooManyArguments", eok)
             ELSE IF v THEN PrintAndReturn(eok)
             ELSE pc' = "open" /\ UNCHANGED <<exit, err>>
    /\ UNCHANGED <<rectVars, log, window, windowRect, geom, sel, image, converted, screens,
                   overlapping, maskRan, warned, outputExt, dest>>

\* Lines 70-77: Display::open.
OpenDisplay ==
    /\ pc = "open"
    /\ log' = Append(log, "open")
    /\ \E ok \in BOOLEAN, eok \in BOOLEAN :
          IF ok THEN pc' = "window" /\ UNCHANGED <<exit, err>>
          ELSE Fail("OpenDisplayFailed", eok)
    /\ UNCHANGED <<rectVars, window, windowRect, geom, sel, image, converted, screens,
                   overlapping, maskRan, warned, free, outputExt, dest>>

\* Lines 79-88: the target is the -i window, the root without -i.
ResolveWindow ==
    /\ pc = "window"
    /\ \E id \in IdArgs, eok \in BOOLEAN :
          IF id = None
          THEN window' = Root /\ pc' = "format" /\ UNCHANGED <<exit, err>>
          ELSE IF Unwrap(id) \in Windows
          THEN window' = Unwrap(id) /\ pc' = "format" /\ UNCHANGED <<exit, err>>
          ELSE Fail("InvalidWindowId", eok) /\ UNCHANGED window
    /\ UNCHANGED <<rectVars, log, windowRect, geom, sel, image, converted, screens,
                   overlapping, maskRan, warned, free, outputExt, dest>>

\* Lines 90-98: the output format, png by default.
ResolveFormat ==
    /\ pc = "format"
    /\ \E f \in FormatArgs, eok \in BOOLEAN :
          LET ext == IF f = None THEN Png ELSE ToLowercase(Unwrap(f))
          IN  /\ outputExt' = ext
              /\ IF ext \in {Png, Pam}
                 THEN pc' = "rect" /\ UNCHANGED <<exit, err>>
                 ELSE Fail("InvalidFormat", eok)
    /\ UNCHANGED <<rectVars, log, window, windowRect, geom, sel, image, converted, screens,
                   overlapping, maskRan, warned, free, dest>>

\* Line 100: display.get_window_rect(window); run() binds the Rect it
\* returns and has no failure path here.
GetWindowRect ==
    /\ pc = "rect"
    /\ log' = Append(log, "get_window_rect")
    /\ windowRect' = WindowRects[window]
    /\ pc' = "select"
    /\ UNCHANGED <<rectVars, exit, err, window, geom, sel, image, converted, screens,
                   overlapping, maskRan, warned, free, outputExt, dest>>

\* A wrong selection: the root-relative overlap is not made window-relative.
SelectionOfNoShift(g, wr) ==
    IF g = None THEN Some(Rect(0, 0, wr.w, wr.h))
    ELSE Intersection(ParseGeometry(Unwrap(g)), wr)

\* A wrong selection: a geometry that misses the window selects all of it.
SelectionOfFallback(g, wr) ==
    IF g = None THEN Some(Rect(0, 0, wr.w, wr.h))
    ELSE LET o == Intersection(ParseGeometry(Unwrap(g)), wr)
         IN  IF IsSome(o)
             THEN Some(Rect(Unwrap(o).x - wr.x, Unwrap(o).y - wr.y,
                            Unwrap(o).w, Unwrap(o).h))
             ELSE Some(Rect(0, 0, wr.w, wr.h))

\* Lines 101-122, the value of `sel`: the whole window without -g, else the
\* overlap of the geometry and the window, relative to the window; None
\* where the code returns 1.
SelectionOf(g, wr) ==
    IF g = None THEN Some(Rect(0, 0, wr.w, wr.h))
    ELSE LET o == Intersection(ParseGeometry(Unwrap(g)), wr)
         IN  IF IsSome(o)
             THEN Some(Rect(Unwrap(o).x - wr.x, Unwrap(o).y - wr.y,
                            Unwrap(o).w, Unwrap(o).h))
             ELSE None

\* Lines 101-122: resolve the selection, or print "Invalid geometry" and
\* return 1 when the geometry and the window have no overlap.
ResolveSelection ==
    /\ pc = "select"
    /\ \E g \in GeomArgs, eok \in BOOLEAN :
          /\ geom' = g
          /\ log' = (IF g = None THEN log ELSE Append(log, "parse_geometry"))
          /\ IF IsSome(SelectionOf(g, windowRect))
             THEN /\ sel' = Unwrap(SelectionOf(g, windowRect))
                  /\ pc' = "capture"
                  /\ UNCHANGED <<exit, err>>
             ELSE /\ Fail("InvalidGeometry", eok)
                  /\ UNCHANGED sel
    /\ UNCHANGED <<rectVars, window, windowRect, image, converted, screens, overlapping,
                   maskRan, warned, free, outputExt, dest>>

\* The framebuffer position that is dark: none, or the bottom right corner
\* of the root (which no screen shows when the right screen is the shorter).
Holes == {<<-1, -1>>, <<RootW - 1, RootH - 1>>}

\* The pixel depths the X server may deliver.
Depths == {16, 24, 32}

\* A wrong capture step: a failed get_image is reported and tried again.
CaptureRetries ==
    /\ pc = "capture"
    /\ \E ok \in BOOLEAN, hole \in Holes, depth \in Depths :
          /\ image' = GetImage(window, sel, hole, depth)
          /\ pc' = "convert"
          /\ log' = (IF ok THEN Append(log, "get_image")
                     ELSE log \o <<"get_image", "get_image">>)
          /\ err' = (IF ok THEN err ELSE "CaptureFailed")
          /\ UNCHANGED exit
    /\ UNCHANGED <<rectVars, window, windowRect, geom, sel, converted, screens, overlapping,
                   maskRan, warned, free, outputExt, dest>>

\* Lines 124-130: display.get_image(window, sel, ALL_PLANES, ZPixmap).
Capture ==
    /\ pc = "capture"
    /\ log' = Append(log, "get_image")
    /\ \E ok \in BOOLEAN, hole \in Holes, depth \in Depths, eok \in BOOLEAN :
          IF ok
          THEN /\ image' = GetImage(window, sel, hole, depth)
               /\ pc' = "convert"
               /\ UNCHANGED <<exit, err>>
          ELSE Fail("CaptureFailed", eok) /\ UNCHANGED image
    /\ UNCHANGED <<rectVars, window, windowRect, geom, sel, converted, screens, overlapping,
                   maskRan, warned, free, outputExt, dest>>

\* Lines 132-139: image.into_image_buffer().
Convert ==
    /\ pc = "convert"
    /\ log' = Append(log, "into_image_buffer")
    /\ \E eok \in BOOLEAN :
          IF IsSome(IntoImageBuffer(image))
          THEN /\ image' = Unwrap(IntoImageBuffer(image))
               /\ converted' = Unwrap(IntoImageBuffer(image))
               /\ pc' = "mask"
               /\ UNCHANGED <<exit, err>>
          ELSE Fail("UnsupportedPixelFormat", eok) /\ UNCHANGED <<image, converted>>
    /\ UNCHANGED <<rectVars, window, windowRect, geom, sel, screens, overlapping, maskRan,
                   warned, free, outputExt, dest>>

\* A wrong guard: only a capture of the whole root is masked.
ShouldMaskWholeRootOnly == window = Root /\ sel = windowRect

\* A wrong guard: every capture is masked.
ShouldMaskAlways == TRUE

\* Line 142: `window == root`.
ShouldMask == window = Root

\* A wrong threshold: a single overlapping screen is masked too.
NeedsMaskOne(scr) == Len(scr) > 0

\* Line 149: `screens.len() > 1`.
NeedsMask(scr) == Len(scr) > 1

\* A wrong mask: the new buffer starts as a copy of the captured one.
MaskedKeepsSource(img, scr, s) == MaskLoop(img, img, scr, s)

\* Lines 150-167: a transparent sel.w x sel.h buffer that receives the
\* overlapping screens.
Masked(img, scr, s) == MaskLoop(FromPixel(s.w, s.h, Transparent), img, scr, s)

\* A wrong mask step: a failed screen enumeration ends the run.
MaskFailsHard ==
    /\ pc = "mask"
    /\ ShouldMask
    /\ log' = Append(log, "get_screen_rects")
    /\ LET scr == screens
       IN  IF IsSome(scr)
             THEN LET ov == FilterMap(Unwrap(scr), sel)
                  IN  /\ overlapping' = ov
                      /\ image' = (IF NeedsMask(ov) THEN Masked(image, ov, sel) ELSE image)
                      /\ maskRan' = NeedsMask(ov)
                      /\ pc' = "emit"
                      /\ UNCHANGED <<warned, exit, err>>
             ELSE /\ warned' = TRUE
                  /\ Return(1, "ScreenEnumerationFailed")
                  /\ UNCHANGED <<overlapping, image, maskRan>>
    /\ UNCHANGED <<rectVars, window, windowRect, geom, sel, converted, screens, free,
                   outputExt, dest>>

\* Lines 142-173: the root capture is masked against the screens; a failed
\* enumeration is reported with eprintln! and the run goes on.
Mask ==
    /\ pc = "mask"
    /\ ShouldMask
    /\ log' = Append(log, "get_screen_rects")
    /\ \E eok \in BOOLEAN :
          LET scr == screens
          IN  IF IsSome(scr)
              THEN LET ov == FilterMap(Unwrap(scr), sel)
                   IN  /\ overlapping' = ov
                       /\ image' = (IF NeedsMask(ov) THEN Masked(image, ov, sel) ELSE image)
                       /\ maskRan' = NeedsMask(ov)
                       /\ pc' = "emit"
                       /\ UNCHANGED <<warned, exit, err>>
              ELSE /\ warned' = TRUE
                   /\ IF eok THEN pc' = "emit" /\ UNCHANGED <<exit, err>>
                      ELSE Panic("StderrFailed")
                   /\ UNCHANGED <<overlapping, image, maskRan>>
    /\ UNCHANGED <<rectVars, window, windowRect, geom, sel, converted, screens, free,
                   outputExt, dest>>

\* Line 142 when the target is not the root: nothing is done.
SkipMask ==
    /\ pc = "mask"
    /\ ~ShouldMask
    /\ pc' = "emit"
    /\ UNCHANGED <<rectVars, exit, err, log, window, windowRect, geom, sel, image, converted,
                   screens, overlapping, maskRan, warned, free, outputExt, dest>>

\* Lines 176-197: the image goes to standard output for "-", else to the
\* named file, or to <seconds>.<ext> when no name was given, which is
\* announced with eprintln! (nameOk: that message could be written).
\* write_to is unwrapped with expect: its failure is a panic.
Emit ==
    /\ pc = "emit"
    /\ \E nameOk \in BOOLEAN, createOk \in BOOLEAN, writeOk \in BOOLEAN, eok \in BOOLEAN :
          IF free = <<>> /\ ~nameOk
          THEN /\ createOk /\ writeOk /\ eok
               /\ Panic("StderrFailed")
               /\ UNCHANGED <<dest, log>>
          ELSE IF free = <<"-">>
          THEN /\ nameOk /\ createOk /\ eok
               /\ dest' = "stdout"
               /\ log' = Append(log, "write_to")
               /\ IF writeOk THEN Return(0, "none") ELSE Panic("WriteFailed")
          ELSE /\ nameOk
               /\ dest' = "file"
               /\ IF createOk
                  THEN /\ eok
                       /\ log' = log \o <<"create", "write_to">>
                       /\ IF writeOk THEN Return(0, "none") ELSE Panic("WriteFailed")
                  ELSE /\ writeOk
                       /\ log' = Append(log, "create")
                       /\ Fail("CreateFailed", eok)
    /\ UNCHANGED <<rectVars, window, windowRect, geom, sel, image, converted, screens,
                   overlapping, maskRan, warned, free, outputExt>>

Next ==
    \/ CollectArgs
    \/ ParseArgs
    \/ OpenDisplay
    \/ ResolveWindow
    \/ ResolveFormat
    \/ GetWindowRect
    \/ ResolveSelection
    \/ Capture
    \/ Convert
    \/ Mask
    \/ SkipMask
    \/ Emit

Spec == Init /\ [][Next]_vars

----------------------------------------------------------------------------
(* Rect::intersection on its own *)

runVars == <<pc, exit, err, log, window, windowRect, geom, sel, image, converted,
             screens, overlapping, maskRan, warned, free, outputExt, dest>>

Rects == [x : -1..MaxCoord, y : 0..MaxCoord, w : 0..MaxCoord, h : 0..MaxCoord]

InitRect ==
    /\ InitRun
    /\ screens = None
    /\ ra \in Rects
    /\ rb \in Rects
    /\ rres = None
    /\ rpc = "input"

\* ra.intersection(rb)
ApplyIntersection ==
    /\ rpc = "input"
    /\ rres' = Intersection(ra, rb)
    /\ rpc' = "applied"
    /\ UNCHANGED <<runVars, ra, rb>>

NextRect == ApplyIntersection

SpecRect == InitRect /\ [][NextRect]_vars

----------------------------------------------------------------------------
(* Vocabulary of the properties *)

Range(q) == {q[i] : i \in 1..Len(q)}

\* The point (px, py) lies inside r.
Inside(px, py, r) ==
    /\ r.x <= px /\ px < r.x + r.w
    /\ r.y <= py /\ py < r.y + r.h

\* The buffer has been handed, or is about to be handed, to the encoder.
AtEmit == pc = "emit" \/ (pc = "exited" /\ dest # "none")

\* a and b share at least one pixel.
PositiveOverlap(a, b) ==
    \E px \in a.x..(a.x + a.w - 1), py \in a.y..(a.y + a.h - 1) : Inside(px, py, b)

\* The enumerated screens that share a pixel with the selection.
OverlapIdx ==
    IF IsSome(screens)
    THEN {k \in 1..Len(Unwrap(screens)) : PositiveOverlap(Unwrap(screens)[k], sel)}
    ELSE {}

\* The pixel p of the capture lies on an overlapping screen, the screen's
\* rectangle being translated by (-sel.x, -sel.y).
InUnion(p) ==
    \E k \in OverlapIdx :
        LET scr == Unwrap(screens)[k]
        IN  Inside(p[1], p[2], Rect(scr.x - sel.x, scr.y - sel.y, scr.w, scr.h))

Pixels == Grid(sel.w, sel.h)

\* The failures of the pipeline stages that run() reports and returns on:
\* lines 111-114 (no selection: a malformed geometry or an empty overlap),
\* 126-129 and 134-138. Line 100 has no failure path.
FatalErrors == {"InvalidGeometry", "CaptureFailed", "UnsupportedPixelFormat"}

\* The call at which each fatal error arises, and the calls of later stages.
FailedCall(e) ==
    CASE e = "InvalidGeometry" -> "parse_geometry"
      [] e = "CaptureFailed" -> "get_image"
      [] e = "UnsupportedPixelFormat" -> "into_image_buffer"

CallOrder ==
    <<"open", "get_window_rect", "parse_geometry", "get_image", "into_image_buffer",
      "get_screen_rects", "create", "write_to">>

LaterCalls(c) ==
    {CallOrder[j] : j \in {i \in 1..Len(CallOrder) :
                              \E k \in 1..Len(CallOrder) : CallOrder[k] = c /\ k < i}}

----------------------------------------------------------------------------
(* Properties *)

\* C1: in a root capture with more than one screen overlapping the
\* selection, the emitted buffer equals the converted buffer on the union of
\* the translated screen rectangles and is (0,0,0,0) everywhere else.
C1_MaskedPixels ==
    (AtEmit /\ window = Root /\ Cardinality(OverlapIdx) > 1) =>
        /\ image.w = sel.w
        /\ image.h = sel.h
        /\ DOMAIN image.px = Pixels
        /\ \A p \in Pixels :
              image.px[p] = IF InUnion(p) THEN converted.px[p] ELSE Transparent

\* C1 happens: two screens overlap the selection, a pixel on them is kept
\* and a pixel off them, which the capture held, is blanked.
C1_Witness ==
    /\ AtEmit /\ window = Root /\ Cardinality(OverlapIdx) > 1
    /\ \E p \in Pixels : InUnion(p) /\ image.px[p] = converted.px[p]
    /\ \E q \in Pixels :
          ~InUnion(q) /\ converted.px[q] # Transparent /\ image.px[q] = Transparent

\* C2: when the mask stage enumerates the screens and at most one of them
\* overlaps the selection, the emitted buffer is the converted buffer.
C2_FewScreensUnchanged ==
    (AtEmit /\ window = Root /\ IsSome(screens) /\ Cardinality(OverlapIdx) <= 1) =>
        image = converted /\ image.w = sel.w /\ image.h = sel.h

\* C2 happens: exactly one screen overlaps the selection and leaves part of
\* it uncovered, and the buffer is emitted as converted.
C2_Witness ==
    /\ AtEmit /\ window = Root /\ IsSome(screens) /\ Cardinality(OverlapIdx) = 1
    /\ \E q \in Pixels : ~InUnion(q)
    /\ image = converted

\* C3: no call is made twice, and a fatal error ends the run at once as a
\* failure (a non-zero exit status): the failed call is the last one made,
\* no call of a later stage has been made.
C3_FatalAborts ==
    /\ \A i, j \in 1..Len(log) : i # j => log[i] # log[j]
    /\ err \in FatalErrors =>
          /\ pc = "exited"
          /\ exit \in {Some(1), Some(101)}
          /\ log[Len(log)] = FailedCall(err)
          /\ Range(log) \cap LaterCalls(FailedCall(err)) = {}

\* C3 happens: a capture failed after a successful selection.
C3_Witness ==
    /\ pc = "exited" /\ err = "CaptureFailed" /\ exit = Some(1)
    /\ log[Len(log)] = "get_image"
    /\ IsSome(geom)

\* C4 as stated: after a failed screen enumeration the run reaches the emit
\* stage with the converted buffer and ends successfully. The runs that
\* panic (exit status 101, see C8) are left aside: the statement fails
\* without them.
C4_Original ==
    (warned /\ pc = "exited" /\ exit # Some(101)) =>
        image = converted /\ dest # "none" /\ exit = Some(0)

\* C4, amended: a failed screen enumeration is no error of its own. The
\* buffer stays as converted and unmasked; unless the warning itself cannot
\* be written (a panic), the run reaches the emit stage, where it exits with
\* 0 when the output is written, with 1 or a panic when the file cannot be
\* created, and with a panic when a message or the image cannot be written.
C4_EnumerationFailureIsSoft ==
    warned =>
        /\ window = Root /\ screens = None
        /\ ~maskRan /\ image = converted
        /\ pc \in {"emit", "exited"}
        /\ err \in {"none", "CreateFailed", "WriteFailed", "StderrFailed"}
        /\ (pc = "exited" /\ err = "none") =>
              exit = Some(0) /\ log[Len(log)] = "write_to"
        /\ (pc = "exited" /\ err = "CreateFailed") =>
              exit \in {Some(1), Some(101)} /\ "write_to" \notin Range(log)
        /\ (pc = "exited" /\ err \in {"WriteFailed", "StderrFailed"}) =>
              exit = Some(101)

\* C4 happens: the enumeration failed and the image was written.
C4_Witness ==
    /\ warned /\ pc = "exited" /\ exit = Some(0)
    /\ "get_screen_rects" \in Range(log)
    /\ image = converted /\ image.w > 0

\* C5: a well-formed geometry that shares no pixel with the window's
\* rectangle fails at lines 111-114 ("Invalid geometry", the only failure of
\* the selection stage) before get_image is called; one that shares a pixel
\* passes the selection stage.
C5_EmptySelection ==
    ("parse_geometry" \in Range(log) /\ WellFormed(Unwrap(geom))) =>
        IF PositiveOverlap(ParseGeometry(Unwrap(geom)), windowRect)
        THEN err # "InvalidGeometry"
        ELSE /\ pc = "exited" /\ exit \in {Some(1), Some(101)}
             /\ err = "InvalidGeometry"
             /\ "get_image" \notin Range(log)

\* C5 happens: a geometry of positive area that only touches the left edge
\* of a window fails, with status 1.
C5_Witness ==
    /\ pc = "exited" /\ err = "InvalidGeometry" /\ exit = Some(1) /\ window # Root
    /\ WellFormed(Unwrap(geom))
    /\ LET g == ParseGeometry(Unwrap(geom))
       IN  g.w > 0 /\ g.h > 0 /\ g.x + g.w = windowRect.x /\ g.y = windowRect.y

\* C6: for a target other than the root the screens are never enumerated
\* and the emitted buffer is the converted buffer.
C6_NonRootNeverMasked ==
    window # Root =>
        /\ "get_screen_rects" \notin Range(log)
        /\ ~maskRan /\ ~warned
        /\ AtEmit => image = converted

\* C6 happens: a window is captured on a display with two screens that both
\* overlap it.
C6_Witness ==
    /\ window = "w1" /\ pc = "exited" /\ exit = Some(0)
    /\ screens = Some(<<ScreenLeft, ScreenRightTop>>)
    /\ geom = None
    /\ image = converted

\* C7 as stated: a root capture whose geometry selects a strict
\* sub-rectangle of the root is emitted unmasked, as it was converted.
C7_Original ==
    (AtEmit /\ window = Root /\ IsSome(geom) /\ sel # windowRect) =>
        image = converted

\* C7, amended: a root capture with a geometry is masked exactly when more
\* than one enumerated screen overlaps the resolved selection, whether the
\* selection is the whole root or a strict sub-rectangle of it.
C7_GeometryMaskedByOverlap ==
    (AtEmit /\ window = Root /\ IsSome(geom) /\ IsSome(screens)) =>
        (maskRan <=> Cardinality(OverlapIdx) > 1)

\* C7 happens: a strict sub-rectangle of the root that two screens overlap
\* is masked, and the mask changes the buffer.
C7_Witness ==
    /\ AtEmit /\ window = Root /\ IsSome(geom) /\ sel # windowRect
    /\ Cardinality(OverlapIdx) > 1
    /\ maskRan /\ image # converted

\* C8: the process exits with 0 or 1, with 0 exactly when nothing failed.
C8_ExitCodes ==
    pc = "exited" =>
        /\ exit \in {Some(0), Some(1)}
        /\ exit = Some(0) <=> err = "none"

\* C9 as stated: intersection(a, a) is Some(a) for every Rect a.
C9_Original ==
    (rpc = "applied" /\ ra = rb) => rres = Some(ra)

\* C9, amended: intersection(a, a) is Some(a) for every Rect a with w > 0
\* and h > 0, and None when w = 0 or h = 0.
C9_SelfIntersection ==
    (rpc = "applied" /\ ra = rb) =>
        rres = IF ra.w > 0 /\ ra.h > 0 THEN Some(ra) ELSE None

\* C9 happens: a rectangle of positive area away from the origin was
\* intersected with itself.
C9_Witness ==
    /\ rpc = "applied" /\ ra = rb
    /\ ra.w > 0 /\ ra.h > 0 /\ ra.x > 0 /\ ra.y > 0
    /\ rres = Some(ra)

\* C10: the rectangle passed to get_image is the whole window at (0, 0)
\* without a geometry, else the overlap of geometry and window shifted by
\* the window's offset; it lies inside the window's extent, and the buffer
\* has its width and height from the capture to the emit stage.
C10_SelectionWindowRelative ==
    "get_image" \in Range(log) =>
        /\ sel = IF geom = None
                 THEN Rect(0, 0, windowRect.w, windowRect.h)
                 ELSE LET o == Unwrap(Intersection(ParseGeometry(Unwrap(geom)),
                                                   windowRect))
                      IN  Rect(o.x - windowRect.x, o.y - windowRect.y, o.w, o.h)
        /\ 0 <= sel.x /\ 0 <= sel.y
        /\ sel.x + sel.w <= windowRect.w
        /\ sel.y + sel.h <= windowRect.h
        /\ err # "CaptureFailed" => image.w = sel.w /\ image.h = sel.h

\* C10 happens: part of a window that is not at the root's origin was
\* captured and emitted.
C10_Witness ==
    /\ pc = "exited" /\ exit = Some(0) /\ window = "w1" /\ IsSome(geom)
    /\ sel.x > 0 /\ sel.w < windowRect.w
    /\ image.w = sel.w /\ image.h = sel.h

====
